---- MODULE Spec2Model ----
(***************************************************************************)
(* Model of the multiplicative linearized Kalman filter AHRS               *)
(* (sw/airborne/subsystems/ahrs/ahrs_float_mlkf.c) and of the CHIMU serial *)
(* attitude source (sw/airborne/modules/ins/ahrs_chimu_uart.c).            *)
(*                                                                         *)
(* C floats are modelled as binary floating point numbers <<m, e>> of      *)
(* value m * 2^e with a mantissa of MantBits bits, every operation rounded *)
(* to nearest: the arithmetic rounds as the C arithmetic does, with fewer  *)
(* bits.  uint32_t values are two 16 bit limbs <<hi, lo>>.                 *)
(***************************************************************************)
EXTENDS Integers, Sequences, FiniteSets, TLC

\* ------------------------------------------------------------------------
\* Bounds of the model
\* ------------------------------------------------------------------------

\* mantissa width of the modelled float (24 in the C build)
MantBits == 11

\* how many sensor events (gyro, accel, mag) one run delivers
MaxEvents == 3

\* how many alignment requests (callback or direct call) one run makes
MaxAligns == 2

\* how many serial bytes one run of the CHIMU source consumes
MaxBytes == 3

\* ------------------------------------------------------------------------
\* Floating point kernel
\* ------------------------------------------------------------------------

\* r with the arguments args evaluated first: C passes its arguments by value
ByValue(args, r) == <<args, r>>[2]

Abs(n) == IF n < 0 THEN -n ELSE n

Sgn(n) == IF n < 0 THEN -1 ELSE 1

\* number of bits of a natural number below 2^31
BitLen(a) ==
  IF a >= 2^15
  THEN IF a >= 2^23
       THEN IF a >= 2^27
            THEN IF a >= 2^29
                 THEN IF a >= 2^30
                      THEN 31
                      ELSE 30
                 ELSE IF a >= 2^28
                      THEN 29
                      ELSE 28
            ELSE IF a >= 2^25
                 THEN IF a >= 2^26
                      THEN 27
                      ELSE 26
                 ELSE IF a >= 2^24
                      THEN 25
                      ELSE 24
       ELSE IF a >= 2^19
            THEN IF a >= 2^21
                 THEN IF a >= 2^22
                      THEN 23
                      ELSE 22
                 ELSE IF a >= 2^20
                      THEN 21
                      ELSE 20
            ELSE IF a >= 2^17
                 THEN IF a >= 2^18
                      THEN 19
                      ELSE 18
                 ELSE IF a >= 2^16
                      THEN 17
                      ELSE 16
  ELSE IF a >= 2^7
       THEN IF a >= 2^11
            THEN IF a >= 2^13
                 THEN IF a >= 2^14
                      THEN 15
                      ELSE 14
                 ELSE IF a >= 2^12
                      THEN 13
                      ELSE 12
            ELSE IF a >= 2^9
                 THEN IF a >= 2^10
                      THEN 11
                      ELSE 10
                 ELSE IF a >= 2^8
                      THEN 9
                      ELSE 8
       ELSE IF a >= 2^3
            THEN IF a >= 2^5
                 THEN IF a >= 2^6
                      THEN 7
                      ELSE 6
                 ELSE IF a >= 2^4
                      THEN 5
                      ELSE 4
            ELSE IF a >= 2^1
                 THEN IF a >= 2^2
                      THEN 3
                      ELSE 2
                 ELSE IF a >= 2^0
                      THEN 1
                      ELSE 0

\* n rounded to MantBits bits, of which it has L (ties away from zero)
NormBits(n, e, L) ==
  IF L <= MantBits
  THEN <<n * 2^(MantBits - L), e - (MantBits - L)>>
  ELSE IF (Abs(n) + 2^(L - MantBits - 1)) \div 2^(L - MantBits) = 2^MantBits
       THEN <<Sgn(n) * 2^(MantBits - 1), e + (L - MantBits) + 1>>
       ELSE <<Sgn(n) * ((Abs(n) + 2^(L - MantBits - 1)) \div 2^(L - MantBits)),
              e + (L - MantBits)>>

\* the float nearest to n * 2^e (ties away from zero)
Norm(n, e) == IF n = 0 THEN <<0, 0>> ELSE NormBits(n, e, BitLen(Abs(n)))

F0 == <<0, 0>>

FromInt(n) == Norm(n, 0)

FNeg(a) == <<-a[1], a[2]>>

FAbs(a) == <<Abs(a[1]), a[2]>>

\* a + b for a, b # 0 with the exponent of a not below that of b
FAddOrdered(a, b) ==
  IF a[2] - b[2] > MantBits + 1 THEN a
  ELSE Norm(a[1] * 2^(a[2] - b[2]) + b[1], b[2])

FAdd(a, b) ==
  IF a[1] = 0 THEN b
  ELSE IF b[1] = 0 THEN a
  ELSE FAddOrdered(IF a[2] >= b[2] THEN a ELSE b, IF a[2] >= b[2] THEN b ELSE a)

FSub(a, b) == FAdd(a, FNeg(b))

FMul(a, b) ==
  IF a[1] = 0 \/ b[1] = 0 THEN F0 ELSE Norm(a[1] * b[1], a[2] + b[2])

\* a / b for b # 0
FDiv(a, b) ==
  IF a[1] = 0 THEN F0
  ELSE Norm(Sgn(a[1]) * Sgn(b[1]) * ((Abs(a[1]) * 2^(MantBits + 2)) \div Abs(b[1])),
            a[2] - b[2] - (MantBits + 2))

FLess(a, b) == FSub(a, b)[1] < 0

FLeq(a, b) == FSub(a, b)[1] <= 0

\* the constant n / d
FRatio(n, d) == FDiv(FromInt(n), FromInt(d))

\* 1. and 2. in the format
F1 == <<2^(MantBits - 1), 1 - MantBits>>

F2 == <<2^(MantBits - 1), 2 - MantBits>>

\* the largest r with r * r <= n, for n < 2^30: its upper eight bits, then
\* the lower seven
ISqrtHigh(n) == CHOOSE d \in 0..255 : (d * 128)^2 <= n /\ n < ((d + 1) * 128)^2

ISqrtLow(n, hi) == CHOOSE r \in hi..(hi + 127) : r * r <= n /\ n < (r + 1) * (r + 1)

ISqrt(n) == ISqrtLow(n, ISqrtHigh(n) * 128)

\* sqrtf(a) for a >= 0
FSqrt(a) ==
  IF a[1] <= 0 THEN F0
  ELSE LET odd == (a[2] % 2) # 0
           m   == IF odd THEN a[1] * 2 ELSE a[1]
           e   == IF odd THEN a[2] - 1 ELSE a[2]
           s   == (28 - MantBits) \div 2
       IN  Norm(ISqrt(m * 2^(2 * s)), (e \div 2) - s)

\* FLT_MIN and FLT_EPSILON of <float.h>
FLT_MIN == Norm(1, -126)

FLT_EPSILON == Norm(1, -23)

\* the nearest integer to a (|a| < 2^30)
FRound(a) ==
  IF a[1] = 0 THEN 0
  ELSE IF a[2] >= 0 THEN a[1] * 2^a[2]
  ELSE IF -a[2] > MantBits + 1 THEN 0
  ELSE Sgn(a[1]) * ((Abs(a[1]) + 2^(-a[2] - 1)) \div 2^(-a[2]))

\* ------------------------------------------------------------------------
\* uint32_t as two 16 bit limbs <<hi, lo>>
\* ------------------------------------------------------------------------

U32(hi, lo) == <<hi, lo>>

\* a - b modulo 2^32
U32Sub(a, b) ==
  LET lo     == a[2] - b[2]
      borrow == IF lo < 0 THEN 1 ELSE 0
  IN  <<(a[1] - b[1] - borrow) % 65536, lo % 65536>>

U32IsZero(a) == a[1] = 0 /\ a[2] = 0

\* (float) of a uint32_t
FloatOfU32(a) == FAdd(FMul(FromInt(a[1]), FromInt(65536)), FromInt(a[2]))

\* ------------------------------------------------------------------------
\* Matrix and vector kernel (math/pprz_simple_matrix.h, pprz_algebra_float.h)
\* ------------------------------------------------------------------------

\* a function over 1..n as a tuple, its elements evaluated once
Tup(f) == f \o <<>>

\* C = 0.; C += s[1]; ...; C += s[k], for the dimensions k = 3 and k = 6 of
\* the filter; the running sums are evaluated in the order of the loop
FSumTo(s, k) ==
  LET c1 == FAdd(F0, s[1])
      c2 == FAdd(c1, s[2])
      c3 == FAdd(c2, s[3])
      c4 == FAdd(c3, s[4])
      c5 == FAdd(c4, s[5])
      c6 == FAdd(c5, s[6])
  IN  IF k = 3 THEN <<c1, c2, c3>>[3] ELSE <<c1, c2, c3, c4, c5, c6>>[6]

\* MAT_MUL(_i, _k, _j, C, A, B): C = A * B
MAT_MUL(i, k, j, A, B) ==
  ByValue(<<A, B>>,
    Tup([l \in 1..i |->
      Tup([c \in 1..j |-> FSumTo([m \in 1..k |-> FMul(A[l][m], B[m][c])], k)])]))

\* MAT_MUL_T(_i, _k, _j, C, A, B): C = A * B'
MAT_MUL_T(i, k, j, A, B) ==
  ByValue(<<A, B>>,
    Tup([l \in 1..i |->
      Tup([c \in 1..j |-> FSumTo([m \in 1..k |-> FMul(A[l][m], B[c][m])], k)])]))

\* MAT_SUB(_i, _j, C, A, B): C = A - B
MAT_SUB(i, j, A, B) ==
  ByValue(<<A, B>>,
    Tup([l \in 1..i |-> Tup([c \in 1..j |-> FSub(A[l][c], B[l][c])])]))

\* the rows and columns that are left when row or column k of 3 is deleted
Lo3(k) == IF k = 1 THEN 2 ELSE 1

Hi3(k) == IF k = 3 THEN 2 ELSE 3

\* the minor of S without row r and column c
MAT_MINOR33(S, r, c) ==
  FSub(FMul(S[Lo3(r)][Lo3(c)], S[Hi3(r)][Hi3(c)]),
       FMul(S[Lo3(r)][Hi3(c)], S[Hi3(r)][Lo3(c)]))

\* the adjugate M (without its signs) over the determinant
MAT_INV33_DIV(S, M) ==
  ByValue(M,
    LET d0 == FAdd(FSub(FMul(S[1][1], M[1][1]), FMul(S[2][1], M[1][2])),
                   FMul(S[3][1], M[1][3]))
    IN  Tup([i \in 1..3 |-> Tup([j \in 1..3 |->
          FDiv(IF (i + j) % 2 = 0 THEN M[i][j] ELSE FNeg(M[i][j]),
               IF FLess(FAbs(d0), FLT_EPSILON) THEN F1 ELSE d0)])]))

\* MAT_INV33(_invS, _S): the adjugate over the determinant; a determinant
\* below FLT_EPSILON is replaced by 1
MAT_INV33(S) ==
  ByValue(S,
    MAT_INV33_DIV(S, Tup([i \in 1..3 |-> Tup([j \in 1..3 |-> MAT_MINOR33(S, j, i)])])))

\* float_vect3_norm
float_vect3_norm(v) ==
  ByValue(v,
    FSqrt(FAdd(FAdd(FMul(v[1], v[1]), FMul(v[2], v[2])), FMul(v[3], v[3]))))

\* VECT3_DIFF(c, a, b): c = a - b
VECT3_DIFF(a, b) == <<FSub(a[1], b[1]), FSub(a[2], b[2]), FSub(a[3], b[3])>>

\* squared norm of a quaternion
QuatNorm2(q) ==
  FAdd(FAdd(FAdd(FMul(q[1], q[1]), FMul(q[2], q[2])), FMul(q[3], q[3])),
       FMul(q[4], q[4]))

\* q / n when n > FLT_MIN
QuatOverNorm(q, n) ==
  ByValue(n,
    IF FLess(FLT_MIN, n)
    THEN <<FDiv(q[1], n), FDiv(q[2], n), FDiv(q[3], n), FDiv(q[4], n)>>
    ELSE q)

\* float_quat_normalize: q / |q| when |q| > FLT_MIN
float_quat_normalize(q) ==
  ByValue(q,
    QuatOverNorm(q, FSqrt(QuatNorm2(q))))

\* float_quat_identity: the identity value the error quaternion is reset to
\* (scalar part 2, vector part zero)
float_quat_identity == <<F2, F0, F0, F0>>

\* float_quat_comp(a2c, a2b, b2c): a2c = a2b * b2c
float_quat_comp(p, q) ==
  ByValue(<<p, q>>,
    << FSub(FSub(FSub(FMul(p[1], q[1]), FMul(p[2], q[2])), FMul(p[3], q[3])), FMul(p[4], q[4])),
       FSub(FAdd(FAdd(FMul(p[1], q[2]), FMul(p[2], q[1])), FMul(p[3], q[4])), FMul(p[4], q[3])),
       FAdd(FAdd(FSub(FMul(p[1], q[3]), FMul(p[2], q[4])), FMul(p[3], q[1])), FMul(p[4], q[2])),
       FAdd(FSub(FAdd(FMul(p[1], q[4]), FMul(p[2], q[3])), FMul(p[3], q[2])), FMul(p[4], q[1])) >>)

\* float_quat_comp_inv(a2b, a2c, b2c): a2b = a2c * inv(b2c)
float_quat_comp_inv(p, q) ==
  float_quat_comp(p, <<q[1], FNeg(q[2]), FNeg(q[3]), FNeg(q[4])>>)

\* float_quat_vmult(v_out, q, v_in): v_in rotated by q
float_quat_vmult(q, v) ==
  ByValue(<<q, v>>,
    LET h    == FRatio(1, 2)
        qi2  == FSub(FMul(q[1], q[1]), h)
        qiqx == FMul(q[1], q[2])
        qiqy == FMul(q[1], q[3])
        qiqz == FMul(q[1], q[4])
        qxqy == FMul(q[2], q[3])
        qxqz == FMul(q[2], q[4])
        qyqz == FMul(q[3], q[4])
        m00  == FAdd(qi2, FMul(q[2], q[2]))
        m01  == FAdd(qxqy, qiqz)
        m02  == FSub(qxqz, qiqy)
        m10  == FSub(qxqy, qiqz)
        m11  == FAdd(qi2, FMul(q[3], q[3]))
        m12  == FAdd(qyqz, qiqx)
        m20  == FAdd(qxqz, qiqy)
        m21  == FSub(qyqz, qiqx)
        m22  == FAdd(qi2, FMul(q[4], q[4]))
    IN  << FMul(F2, FAdd(FAdd(FMul(m00, v[1]), FMul(m01, v[2])), FMul(m02, v[3]))),
           FMul(F2, FAdd(FAdd(FMul(m10, v[1]), FMul(m11, v[2])), FMul(m12, v[3]))),
           FMul(F2, FAdd(FAdd(FMul(m20, v[1]), FMul(m21, v[2])), FMul(m22, v[3]))) >>)

\* float_rmat_transp_ratemult(rb, m_b2a, ra): rb = m' * ra
float_rmat_transp_ratemult(m, ra) ==
  ByValue(ra,
    << FAdd(FAdd(FMul(m[1][1], ra[1]), FMul(m[2][1], ra[2])), FMul(m[3][1], ra[3])),
       FAdd(FAdd(FMul(m[1][2], ra[1]), FMul(m[2][2], ra[2])), FMul(m[3][2], ra[3])),
       FAdd(FAdd(FMul(m[1][3], ra[1]), FMul(m[2][3], ra[2])), FMul(m[3][3], ra[3])) >>)

\* M_PI of <math.h>
M_PI == FRatio(355, 113)

\* 1 - y/d[1] * (1 - y/d[2] * ( ... (1 - y/d[6]))) over the six divisors d,
\* evaluated from the innermost term out
Horner(y, d) ==
  LET h6 == FSub(F1, FMul(FDiv(y, FromInt(d[6])), F1))
      h5 == FSub(F1, FMul(FDiv(y, FromInt(d[5])), h6))
      h4 == FSub(F1, FMul(FDiv(y, FromInt(d[4])), h5))
      h3 == FSub(F1, FMul(FDiv(y, FromInt(d[3])), h4))
      h2 == FSub(F1, FMul(FDiv(y, FromInt(d[2])), h3))
      h1 == FSub(F1, FMul(FDiv(y, FromInt(d[1])), h2))
  IN  <<y, h6, h5, h4, h3, h2, h1>>[7]

\* the integer nearest to a, as a float
FNearbyInt(a) == IF a[2] >= 0 THEN a ELSE FromInt(FRound(a))

\* the angle a brought into [-pi, pi]
AngleReduce(a) ==
  LET twopi == FMul(F2, M_PI)
  IN  FSub(a, FMul(FNearbyInt(FDiv(a, twopi)), twopi))

\* the power series of cos and sin at a reduced angle x
CosSeries(x) ==
  ByValue(x,
    Horner(FMul(x, x), <<2, 12, 30, 56, 90, 132>>))

SinSeries(x) ==
  ByValue(x,
    FMul(x, Horner(FMul(x, x), <<6, 20, 42, 72, 110, 156>>)))

\* cosf and sinf: the power series of the reduced angle
cosf(a) == CosSeries(AngleReduce(a))

sinf(a) == SinSeries(AngleReduce(a))

\* FLOAT_RATES_NORM
FLOAT_RATES_NORM(r) == float_vect3_norm(r)

\* q composed with the rotation quaternion (ca, sa_ov_no * omega), renormalized
QuatRotate(q, omega, ca, sa_ov_no) ==
  ByValue(<<ca, sa_ov_no>>,
    LET dq1 == FMul(sa_ov_no, omega[1])
        dq2 == FMul(sa_ov_no, omega[2])
        dq3 == FMul(sa_ov_no, omega[3])
    IN  float_quat_normalize(
          << FSub(FSub(FSub(FMul(ca, q[1]), FMul(dq1, q[2])), FMul(dq2, q[3])), FMul(dq3, q[4])),
             FSub(FAdd(FAdd(FMul(dq1, q[1]), FMul(ca, q[2])), FMul(dq3, q[3])), FMul(dq2, q[4])),
             FAdd(FAdd(FSub(FMul(dq2, q[1]), FMul(dq3, q[2])), FMul(ca, q[3])), FMul(dq1, q[4])),
             FAdd(FSub(FAdd(FMul(dq3, q[1]), FMul(dq2, q[2])), FMul(dq1, q[3])), FMul(ca, q[4])) >>))

\* float_quat_integrate(q, omega, dt): q composed with the rotation
\* omega * dt (quaternion exponential), renormalized
float_quat_integrate(q, omega, dt) ==
  LET no == FLOAT_RATES_NORM(omega)
      a  == FMul(FMul(FRatio(1, 2), no), dt)
  IN  IF FLess(FLT_MIN, no)
      THEN QuatRotate(q, omega, cosf(a), FDiv(sinf(a), no))
      ELSE q

\* RATES_FLOAT_OF_BFP, ACCELS_FLOAT_OF_BFP, MAGS_FLOAT_OF_BFP: the fixed
\* point sensor values (12, 10 and 11 fractional bits) as floats
RATES_FLOAT_OF_BFP(r) == <<Norm(r[1], -12), Norm(r[2], -12), Norm(r[3], -12)>>

ACCELS_FLOAT_OF_BFP(v) == <<Norm(v[1], -10), Norm(v[2], -10), Norm(v[3], -10)>>

MAGS_FLOAT_OF_BFP(v) == <<Norm(v[1], -11), Norm(v[2], -11), Norm(v[3], -11)>>

\* AHRS_H_X, AHRS_H_Y, AHRS_H_Z: the local magnetic field of the airframe
AHRS_H == <<FRatio(38, 100), FRatio(2, 100), FRatio(93, 100)>>

\* v / n when n > 0
Vect3OverNorm(v, n) ==
  ByValue(<<v, n>>,
    IF FLess(F0, n) THEN <<FDiv(v[1], n), FDiv(v[2], n), FDiv(v[3], n)>> ELSE v)

\* the quaternion that turns the unit gravity direction an onto the z axis
QuatFromGravity(an) ==
  ByValue(an,
    IF FSub(an[3], F1)[1] = 0
    THEN <<F0, F1, F0, F0>>
    ELSE float_quat_normalize(<<FSub(F1, an[3]), FNeg(an[2]), an[1], F0>>))

\* ahrs_float_get_quat_from_accel: roll and pitch from the gravity direction
ahrs_float_get_quat_from_accel(accel) ==
  LET af == ACCELS_FLOAT_OF_BFP(accel)
  IN  QuatFromGravity(Vect3OverNorm(af, float_vect3_norm(af)))

\* the yaw quaternion that turns the levelled magnetic field ml onto AHRS_H
QuatFromLevelledMag(ml) ==
  ByValue(ml,
    LET dot   == FAdd(FMul(ml[1], AHRS_H[1]), FMul(ml[2], AHRS_H[2]))
        norm2 == FMul(FSqrt(FAdd(FMul(ml[1], ml[1]), FMul(ml[2], ml[2]))),
                      FSqrt(FAdd(FMul(AHRS_H[1], AHRS_H[1]), FMul(AHRS_H[2], AHRS_H[2]))))
    IN  IF FAdd(norm2, dot)[1] = 0
        THEN <<F0, F0, F0, F1>>
        ELSE float_quat_normalize(
               <<FAdd(norm2, dot), F0, F0,
                 FSub(FMul(ml[1], AHRS_H[2]), FMul(ml[2], AHRS_H[1]))>>))

\* q or -q, the one with the scalar part that is not negative
QuatWrapShortest(q) ==
  ByValue(q,
    IF q[1][1] < 0 THEN <<FNeg(q[1]), FNeg(q[2]), FNeg(q[3]), FNeg(q[4])>> ELSE q)

\* the attitude from the levelling quaternion q_a and the magnetic field mf
QuatFromLevelAndMag(q_a, mf) ==
  ByValue(<<q_a, mf>>,
    float_quat_normalize(QuatWrapShortest(float_quat_comp(
      QuatFromLevelledMag(
        float_quat_vmult(<<q_a[1], FNeg(q_a[2]), FNeg(q_a[3]), FNeg(q_a[4])>>, mf)),
      q_a))))

\* ahrs_float_get_quat_from_accel_mag: closed form attitude from the measured
\* gravity and magnetic field directions
ahrs_float_get_quat_from_accel_mag(accel, mag) ==
  QuatFromLevelAndMag(ahrs_float_get_quat_from_accel(accel), MAGS_FLOAT_OF_BFP(mag))

\* ------------------------------------------------------------------------
\* State
\* ------------------------------------------------------------------------

VARIABLES
  build,        \* compile time switches of the build
  ahrs_mlkf,    \* struct AhrsMlkf ahrs_mlkf
  last_stamp,   \* static uint32_t last_stamp of gyro_cb
  state,        \* the vehicle state interface (state.h) the filter writes to
  ev,           \* the event handled last and its inputs
  prop_log,     \* the dt of every ahrs_mlkf_propagate call of the last event
  n_gyro,       \* gyro samples delivered so far
  gyro_stamp,   \* time stamp of the gyro sample delivered last
  n_events,     \* sensor events delivered so far
  n_aligns,     \* alignment requests made so far
  chimu,        \* CHIMU_DATA: the parser's decoded message
  ins_state,    \* the vehicle state interface as the CHIMU source writes it
  n_bytes       \* serial bytes consumed so far

vars == <<build, ahrs_mlkf, last_stamp, state, ev, prop_log, n_gyro, gyro_stamp,
          n_events, n_aligns, chimu, ins_state, n_bytes>>

mlkf_vars == <<build, ahrs_mlkf, last_stamp, state, ev, prop_log, n_gyro,
               gyro_stamp, n_events, n_aligns>>

chimu_vars == <<chimu, ins_state, n_bytes>>

AHRS_MLKF_UNINIT == "AHRS_MLKF_UNINIT"

AHRS_MLKF_RUNNING == "AHRS_MLKF_RUNNING"

\* AHRS_PROPAGATE_FREQUENCY of the fixed-dt build, in Hz
AHRS_PROPAGATE_FREQUENCY == 512

\* ------------------------------------------------------------------------
\* The filter (ahrs_float_mlkf.c).  Every C function is an operator on the
\* record w = [mlkf, sink, last_stamp, log] of what it can read and write.
\* ------------------------------------------------------------------------

\* stateSetNedToBodyQuat_f and stateSetBodyRates_f of state.h
stateSetNedToBodyQuat_f(sink, q) ==
  [sink EXCEPT !.ned_to_body_quat = q, !.n_quat = @ + 1]

stateSetBodyRates_f(sink, r) ==
  [sink EXCEPT !.body_rates = r, !.n_rates = @ + 1]

set_body_state_from_quat(w) ==
  ByValue(w,
    LET body_to_imu_quat == w.mlkf.body_to_imu.quat
        body_to_imu_rmat == w.mlkf.body_to_imu.rmat
        ltp_to_body_quat == float_quat_comp_inv(w.mlkf.ltp_to_imu_quat, body_to_imu_quat)
        body_rate        == float_rmat_transp_ratemult(body_to_imu_rmat, w.mlkf.imu_rate)
    IN  [w EXCEPT !.sink = stateSetBodyRates_f(
                             stateSetNedToBodyQuat_f(w.sink, ltp_to_body_quat), body_rate)])

\* reset_state that also refreshes the body frame projection
reset_state_Projects(w) ==
  ByValue(w,
    LET gibbs == [w.mlkf.gibbs_cor EXCEPT ![1] = F2]
        q_tmp == float_quat_normalize(float_quat_comp(w.mlkf.ltp_to_imu_quat, gibbs))
    IN  set_body_state_from_quat(
          [w EXCEPT !.mlkf.ltp_to_imu_quat = q_tmp,
                    !.mlkf.gibbs_cor = float_quat_identity]))

\* reset_state that folds the error in and does not clear it
reset_state_KeepsGibbs(w) ==
  ByValue(w,
    LET gibbs == [w.mlkf.gibbs_cor EXCEPT ![1] = F2]
        q_tmp == float_quat_normalize(float_quat_comp(w.mlkf.ltp_to_imu_quat, gibbs))
    IN  [w EXCEPT !.mlkf.ltp_to_imu_quat = q_tmp, !.mlkf.gibbs_cor = gibbs])

\* reset_state without the renormalization of the composed quaternion
reset_state_NoNormalize(w) ==
  ByValue(w,
    LET gibbs == [w.mlkf.gibbs_cor EXCEPT ![1] = F2]
        q_tmp == float_quat_comp(w.mlkf.ltp_to_imu_quat, gibbs)
    IN  [w EXCEPT !.mlkf.ltp_to_imu_quat = q_tmp,
                  !.mlkf.gibbs_cor = float_quat_identity])

reset_state(w) ==
  ByValue(w,
    LET gibbs == [w.mlkf.gibbs_cor EXCEPT ![1] = F2]
        q_tmp == float_quat_normalize(float_quat_comp(w.mlkf.ltp_to_imu_quat, gibbs))
    IN  [w EXCEPT !.mlkf.ltp_to_imu_quat = q_tmp,
                  !.mlkf.gibbs_cor = float_quat_identity])

I6 ==
  Tup([i \in 1..6 |-> Tup([j \in 1..6 |-> IF i = j THEN F1 ELSE F0])])

\* update_state from the gain K on: P = (I - K H) P and X = X + K e
update_state_K(w, H, e, K) ==
  ByValue(K,
    LET Ke(i) == FAdd(FAdd(FMul(K[i][1], e[1]), FMul(K[i][2], e[2])), FMul(K[i][3], e[3]))
        g     == w.mlkf.gibbs_cor
        bias  == w.mlkf.gyro_bias
        tmp3  == MAT_MUL(6, 3, 6, K, H)
        tmp4  == MAT_SUB(6, 6, I6, tmp3)
        tmp5  == MAT_MUL(6, 6, 6, tmp4, w.mlkf.P)
    IN  [w EXCEPT !.mlkf.P = tmp5,
                  !.mlkf.gibbs_cor = <<g[1], FAdd(g[2], Ke(1)), FAdd(g[3], Ke(2)), FAdd(g[4], Ke(3))>>,
                  !.mlkf.gyro_bias = <<FAdd(bias[1], Ke(4)), FAdd(bias[2], Ke(5)), FAdd(bias[3], Ke(6))>>])

\* update_state from the Jacobian H on: S = H P H' + R and K = P H' inv(S)
update_state_H(w, H, e, noise) ==
  LET P    == w.mlkf.P
      tmp  == MAT_MUL(3, 6, 6, H, P)
      S0   == MAT_MUL_T(3, 6, 3, tmp, H)
      S    == Tup([i \in 1..3 |-> Tup([j \in 1..3 |->
                IF i = j THEN FAdd(S0[i][i], noise[i]) ELSE S0[i][j]])])
      invS == MAT_INV33(S)
      tmp2 == MAT_MUL_T(6, 6, 3, P, H)
      K    == MAT_MUL(6, 3, 3, tmp2, invS)
  IN  update_state_K(w, H, e, K)

\* update_state from the expected measurement b on
update_state_b(w, b, b_measured, noise) ==
  ByValue(b,
    update_state_H(w,
                   << <<F0, FNeg(b[3]), b[2], F0, F0, F0>>,
                      <<b[3], F0, FNeg(b[1]), F0, F0, F0>>,
                      <<FNeg(b[2]), b[1], F0, F0, F0, F0>> >>,
                   VECT3_DIFF(b_measured, b), noise))

update_state(w, i_expected, b_measured, noise) ==
  update_state_b(w, float_quat_vmult(w.mlkf.ltp_to_imu_quat, i_expected),
                 b_measured, noise)

\* propagate_state from the transition matrix F on: P = F P F' + Q
propagate_state_F(w, F, dt) ==
  ByValue(w,
    LET tmp == MAT_MUL(6, 6, 6, F, w.mlkf.P)
        FPF == MAT_MUL_T(6, 6, 6, tmp, F)
        dt2 == FMul(dt, dt)
        GQG == <<FMul(dt2, FRatio(10, 1000)), FMul(dt2, FRatio(9, 1000000))>>
    IN  [w EXCEPT !.mlkf.P =
           Tup([i \in 1..6 |->
             Tup([j \in 1..6 |->
               IF i = j THEN FAdd(FPF[i][i], GQG[IF i <= 3 THEN 1 ELSE 2])
               ELSE FPF[i][j]])])])

propagate_state(w, dt) ==
  ByValue(w,
    LET dp  == FMul(w.mlkf.imu_rate[1], dt)
        dq  == FMul(w.mlkf.imu_rate[2], dt)
        dr  == FMul(w.mlkf.imu_rate[3], dt)
        mdt == FNeg(dt)
    IN  propagate_state_F(w,
          << <<F1, dr, FNeg(dq), mdt, F0, F0>>,
             <<FNeg(dr), F1, dp, F0, mdt, F0>>,
             <<dq, FNeg(dp), F1, F0, F0, mdt>>,
             <<F0, F0, F0, F1, F0, F0>>,
             <<F0, F0, F0, F0, F1, F0>>,
             <<F0, F0, F0, F0, F0, F1>> >>, dt))

\* propagate_ref from the rate estimate on
propagate_ref_rate(w, rate, dt) ==
  ByValue(rate,
    [w EXCEPT !.mlkf.imu_rate = rate,
              !.mlkf.ltp_to_imu_quat = float_quat_integrate(w.mlkf.ltp_to_imu_quat, rate, dt)])

\* FLOAT_RATES_LIN_CMB(imu_rate, imu_rate, 1 - alpha, gyro_float, alpha)
RatesLowPass(old, new, alpha) ==
  Tup([i \in 1..3 |-> FAdd(FMul(FSub(F1, alpha), old[i]), FMul(alpha, new[i]))])

\* propagate_ref from the unbiased gyro sample on
propagate_ref_unbiased(w, gyro_float, dt) ==
  ByValue(gyro_float,
    propagate_ref_rate(w,
      IF build.low_pass_rates
      THEN RatesLowPass(w.mlkf.imu_rate, gyro_float, FRatio(1, 10))
      ELSE gyro_float,
      dt))

propagate_ref(w, gyro, dt) ==
  propagate_ref_unbiased(w, VECT3_DIFF(RATES_FLOAT_OF_BFP(gyro), w.mlkf.gyro_bias), dt)

ahrs_mlkf_update_mag(w, mag) ==
  LET imu_h == MAGS_FLOAT_OF_BFP(mag)
  IN  reset_state(update_state(w, w.mlkf.mag_h, imu_h, w.mlkf.mag_noise))

\* ahrs_mlkf_update_accel from the low passed acceleration excess lp on
ahrs_mlkf_update_accel_lp(w, imu_g, lp) ==
  ByValue(lp,
    reset_state(update_state([w EXCEPT !.mlkf.lp_accel = lp],
                             <<F0, F0, FNeg(FRatio(981, 100))>>, imu_g,
                             Tup([i \in 1..3 |-> FAdd(F1, FMul(FromInt(250), FAbs(lp)))]))))

\* ahrs_mlkf_update_accel from the float acceleration imu_g on
ahrs_mlkf_update_accel_g(w, imu_g) ==
  ahrs_mlkf_update_accel_lp(w, imu_g,
    FAdd(FMul(FRatio(92, 100), w.mlkf.lp_accel),
         FMul(FSub(F1, FRatio(92, 100)),
              FSub(float_vect3_norm(imu_g), FRatio(981, 100)))))

ahrs_mlkf_update_accel(w, accel) ==
  ahrs_mlkf_update_accel_g(w, ACCELS_FLOAT_OF_BFP(accel))

\* ahrs_mlkf_propagate without the body frame projection
ahrs_mlkf_propagate_NoProject(w, gyro, dt) ==
  LET w0 == [w EXCEPT !.log = Append(@, dt)]
  IN  propagate_state(propagate_ref(w0, gyro, dt), dt)

ahrs_mlkf_propagate(w, gyro, dt) ==
  LET w0 == [w EXCEPT !.log = Append(@, dt)]
  IN  set_body_state_from_quat(propagate_state(propagate_ref(w0, gyro, dt), dt))

ahrs_mlkf_align(w, lp_gyro, lp_accel, lp_mag) ==
  LET w1 == [w EXCEPT !.mlkf.ltp_to_imu_quat =
                         ahrs_float_get_quat_from_accel_mag(lp_accel, lp_mag)]
      w2 == set_body_state_from_quat(w1)
  IN  [w2 EXCEPT !.mlkf.gyro_bias = RATES_FLOAT_OF_BFP(lp_gyro),
                 !.mlkf.status = AHRS_MLKF_RUNNING]

\* the dt gyro_cb computes from two time stamps: (float)(stamp - last) * 1e-6
StampDt(stamp, last) ==
  FMul(FloatOfU32(U32Sub(stamp, last)), FRatio(1, 1000000))

\* gyro_cb that marks the filter running once it has propagated or stamped
gyro_cb_StartsFilter(w, stamp, gyro) ==
  IF build.measured_dt
  THEN LET w1 == IF ~U32IsZero(w.last_stamp) /\ w.mlkf.status = AHRS_MLKF_RUNNING
                 THEN ahrs_mlkf_propagate(w, gyro, StampDt(stamp, w.last_stamp))
                 ELSE w
       IN  [w1 EXCEPT !.last_stamp = stamp, !.mlkf.status = AHRS_MLKF_RUNNING]
  ELSE IF w.mlkf.status = AHRS_MLKF_RUNNING
       THEN ahrs_mlkf_propagate(w, gyro, FRatio(1, AHRS_PROPAGATE_FREQUENCY))
       ELSE [w EXCEPT !.mlkf.status = AHRS_MLKF_RUNNING]

gyro_cb(w, stamp, gyro) ==
  IF build.measured_dt
  THEN LET w1 == IF ~U32IsZero(w.last_stamp) /\ w.mlkf.status = AHRS_MLKF_RUNNING
                 THEN ahrs_mlkf_propagate(w, gyro, StampDt(stamp, w.last_stamp))
                 ELSE w
       IN  [w1 EXCEPT !.last_stamp = stamp]
  ELSE IF w.mlkf.status = AHRS_MLKF_RUNNING
       THEN ahrs_mlkf_propagate(w, gyro, FRatio(1, AHRS_PROPAGATE_FREQUENCY))
       ELSE w

accel_cb(w, accel) ==
  IF w.mlkf.status = AHRS_MLKF_RUNNING THEN ahrs_mlkf_update_accel(w, accel) ELSE w

mag_cb(w, mag) ==
  IF w.mlkf.status = AHRS_MLKF_RUNNING THEN ahrs_mlkf_update_mag(w, mag) ELSE w

\* aligner_cb without the test of the status
aligner_cb_NoGuard(w, lp_gyro, lp_accel, lp_mag) ==
  ahrs_mlkf_align(w, lp_gyro, lp_accel, lp_mag)

aligner_cb(w, lp_gyro, lp_accel, lp_mag) ==
  IF w.mlkf.status # AHRS_MLKF_RUNNING
  THEN ahrs_mlkf_align(w, lp_gyro, lp_accel, lp_mag)
  ELSE w

\* the fields ahrs_mlkf_init assigns; the others are the zero of a C global
ahrs_mlkf_init(body_to_imu) ==
  [ body_to_imu     |-> body_to_imu,
    status          |-> AHRS_MLKF_UNINIT,
    ltp_to_imu_quat |-> body_to_imu.quat,
    imu_rate        |-> <<F0, F0, F0>>,
    mag_h           |-> AHRS_H,
    gyro_bias       |-> <<F0, F0, F0>>,
    P               |-> Tup([i \in 1..6 |-> Tup([j \in 1..6 |->
                          IF i # j THEN F0
                          ELSE IF i <= 3 THEN F1 ELSE FRatio(1, 10000)])]),
    mag_noise       |-> <<FRatio(2, 10), FRatio(2, 10), FRatio(2, 10)>>,
    gibbs_cor       |-> <<F0, F0, F0, F0>>,
    lp_accel        |-> F0 ]

\* ------------------------------------------------------------------------
\* The CHIMU serial attitude source (ahrs_chimu_uart.c)
\* ------------------------------------------------------------------------

\* CHIMU_Parse(ch, 0, &CHIMU_DATA) on a byte that ends the frame fr: the
\* message id is stored, and the decoded attitude of an attitude frame
CHIMU_Parse(data, fr) ==
  IF fr.done
  THEN IF fr.id = 3 THEN [m_MsgID |-> fr.id, euler |-> fr.euler]
       ELSE [data EXCEPT !.m_MsgID = fr.id]
  ELSE data

\* parse_ins_byte that takes 2 pi off every positive roll
parse_ins_byte_WrapsPositive(c, fr) ==
  LET d1 == CHIMU_Parse(c.data, fr)
  IN  IF fr.done /\ d1.m_MsgID = 3
      THEN LET phi == IF FLess(F0, d1.euler[1])
                      THEN FSub(d1.euler[1], FMul(F2, M_PI))
                      ELSE d1.euler[1]
               att == <<phi, d1.euler[2], d1.euler[3]>>
           IN  [ data |-> [d1 EXCEPT !.euler[1] = phi],
                 sink |-> [c.sink EXCEPT !.ned_to_body_eulers = att,
                                         !.new_ins_attitude = 1],
                 log  |-> Append(c.log, [raw |-> fr.euler, att |-> att]) ]
      ELSE [c EXCEPT !.data = d1]

\* one turn of the while loop of parse_ins_msg, on the byte that the frame
\* outcome fr stands for; c = [data, sink, log]
parse_ins_byte(c, fr) ==
  LET d1 == CHIMU_Parse(c.data, fr)
  IN  IF fr.done /\ d1.m_MsgID = 3
      THEN LET phi == IF FLess(M_PI, d1.euler[1])
                      THEN FSub(d1.euler[1], FMul(F2, M_PI))
                      ELSE d1.euler[1]
               att == <<phi, d1.euler[2], d1.euler[3]>>
           IN  [ data |-> [d1 EXCEPT !.euler[1] = phi],
                 sink |-> [c.sink EXCEPT !.ned_to_body_eulers = att,
                                         !.new_ins_attitude = 1],
                 log  |-> Append(c.log, [raw |-> fr.euler, att |-> att]) ]
      ELSE [c EXCEPT !.data = d1]

RECURSIVE parse_ins_msg(_, _)
\* parse_ins_msg with the bytes frs available on the link
parse_ins_msg(c, frs) ==
  IF frs = <<>> THEN c
  ELSE parse_ins_msg(parse_ins_byte(c, Head(frs)), Tail(frs))

\* ------------------------------------------------------------------------
\* Inputs
\* ------------------------------------------------------------------------

\* mounting of the IMU on the body: aligned, and turned 90 degrees in yaw
MountAligned ==
  [quat |-> <<F1, F0, F0, F0>>,
   rmat |-> << <<F1, F0, F0>>, <<F0, F1, F0>>, <<F0, F0, F1>> >>]

MountYaw90 ==
  [quat |-> float_quat_normalize(<<F1, F0, F0, F1>>),
   rmat |-> << <<F0, F1, F0>>, <<FNeg(F1), F0, F0>>, <<F0, F0, F1>> >>]

\* the builds and mountings: measured or fixed dt (USE_AUTO_AHRS_FREQ,
\* AHRS_PROPAGATE_FREQUENCY), low passed or direct rates
\* (AHRS_PROPAGATE_LOW_PASS_RATES), IMU aligned with the body or turned
Configs ==
  { [measured_dt |-> TRUE,  low_pass_rates |-> FALSE, body_to_imu |-> MountYaw90],
    [measured_dt |-> FALSE, low_pass_rates |-> TRUE,  body_to_imu |-> MountAligned] }

\* time stamps in microseconds: 0, 1000 and 2^32 - 1000
Stamps == {U32(0, 0), U32(0, 1000), U32(65535, 64536)}

GyroSamples == {<<40, -20, 400>>}

AccelSamples == {<<1024, -512, -9000>>}

MagSamples == {<<0, 1024, 1024>>}

AlignSamples ==
  { [gyro |-> <<8, 0, -4>>, accel |-> <<1024, 0, -10045>>, mag |-> <<778, 41, 1905>>] }

\* roll angles a frame can carry, in half radians
RollHalves == {-14, -7, -6, 0, 3, 6, 7, 12, 19, 20}

Frames ==
  { [done |-> FALSE, id |-> 0, euler |-> <<F0, F0, F0>>],
    [done |-> TRUE, id |-> 0, euler |-> <<F0, F0, F0>>] }
  \cup { [done |-> TRUE, id |-> 3, euler |-> <<FRatio(h, 2), FRatio(1, 4), F1>>] :
           h \in RollHalves }

\* the byte runs one poll of the link can find
FrameRuns == {<<>>} \cup {<<a>> : a \in Frames} \cup {<<a, b>> : a, b \in Frames}

\* ------------------------------------------------------------------------
\* Initial state and events
\* ------------------------------------------------------------------------

NoEvent == [op |-> "init", stamp |-> U32(0, 0), frames |-> <<>>]

Init ==
  /\ \E c \in Configs :
       /\ build = [measured_dt |-> c.measured_dt, low_pass_rates |-> c.low_pass_rates]
       /\ ahrs_mlkf = ahrs_mlkf_init(c.body_to_imu)
  /\ last_stamp = U32(0, 0)
  /\ state = [ned_to_body_quat |-> <<F1, F0, F0, F0>>, body_rates |-> <<F0, F0, F0>>,
              n_quat |-> 0, n_rates |-> 0]
  /\ ev = NoEvent
  /\ prop_log = <<>>
  /\ n_gyro = 0
  /\ gyro_stamp = U32(0, 0)
  /\ n_events = 0
  /\ n_aligns = 0
  /\ chimu = [data |-> [m_MsgID |-> 0, euler |-> <<F0, F0, F0>>], log |-> <<>>]
  /\ ins_state = [ned_to_body_eulers |-> <<F0, F0, F0>>, new_ins_attitude |-> 0]
  /\ n_bytes = 0

\* what the handlers of the filter read and write
World == [mlkf |-> ahrs_mlkf, sink |-> state, last_stamp |-> last_stamp, log |-> <<>>]

Commit(w) ==
  /\ ahrs_mlkf' = w.mlkf
  /\ state' = w.sink
  /\ last_stamp' = w.last_stamp
  /\ prop_log' = w.log
  /\ UNCHANGED <<build, chimu_vars>>

\* a gyro sample arrives on the bus
GyroEvent ==
  /\ n_events < MaxEvents
  /\ \E stamp \in Stamps, gyro \in GyroSamples :
       /\ Commit(gyro_cb(World, stamp, gyro))
       /\ ev' = [op |-> "gyro", stamp |-> stamp, frames |-> <<>>]
       /\ gyro_stamp' = stamp
  /\ n_gyro' = n_gyro + 1
  /\ n_events' = n_events + 1
  /\ UNCHANGED n_aligns

\* an accelerometer sample arrives on the bus
AccelEvent ==
  /\ n_events < MaxEvents
  /\ \E accel \in AccelSamples : Commit(accel_cb(World, accel))
  /\ ev' = [NoEvent EXCEPT !.op = "accel"]
  /\ n_events' = n_events + 1
  /\ UNCHANGED <<n_gyro, gyro_stamp, n_aligns>>

\* a magnetometer sample arrives on the bus
MagEvent ==
  /\ n_events < MaxEvents
  /\ \E mag \in MagSamples : Commit(mag_cb(World, mag))
  /\ ev' = [NoEvent EXCEPT !.op = "mag"]
  /\ n_events' = n_events + 1
  /\ UNCHANGED <<n_gyro, gyro_stamp, n_aligns>>

\* the aligner publishes its low passed samples on the bus
AlignEvent ==
  /\ n_aligns < MaxAligns
  /\ \E a \in AlignSamples : Commit(aligner_cb(World, a.gyro, a.accel, a.mag))
  /\ ev' = [NoEvent EXCEPT !.op = "aligner_cb"]
  /\ n_aligns' = n_aligns + 1
  /\ UNCHANGED <<n_gyro, gyro_stamp, n_events>>

\* a caller invokes the public ahrs_mlkf_align directly
AlignCall ==
  /\ n_aligns < MaxAligns
  /\ \E a \in AlignSamples : Commit(ahrs_mlkf_align(World, a.gyro, a.accel, a.mag))
  /\ ev' = [NoEvent EXCEPT !.op = "ahrs_mlkf_align"]
  /\ n_aligns' = n_aligns + 1
  /\ UNCHANGED <<n_gyro, gyro_stamp, n_events>>

\* the CHIMU source polls its link and drains the bytes it finds
ParseInsMsg ==
  /\ \E frs \in FrameRuns :
       /\ n_bytes + Len(frs) <= MaxBytes
       /\ LET c == parse_ins_msg([data |-> chimu.data, sink |-> ins_state, log |-> <<>>], frs)
          IN  /\ chimu' = [data |-> c.data, log |-> c.log]
              /\ ins_state' = c.sink
       /\ ev' = [op |-> "parse_ins_msg", stamp |-> U32(0, 0), frames |-> frs]
       /\ n_bytes' = n_bytes + Len(frs)
  /\ UNCHANGED <<build, ahrs_mlkf, last_stamp, state, prop_log, n_gyro, gyro_stamp,
                 n_events, n_aligns>>

Next == GyroEvent \/ AccelEvent \/ MagEvent \/ AlignEvent \/ AlignCall

Spec == Init /\ [][Next]_vars

SpecChimu == Init /\ [][ParseInsMsg]_vars

\* ------------------------------------------------------------------------
\* Properties
\* ------------------------------------------------------------------------

Running == ahrs_mlkf.status = AHRS_MLKF_RUNNING

AlignOps == {"aligner_cb", "ahrs_mlkf_align"}

\* the body quaternion and rates the sink holds, without its write counters
Published == <<state.ned_to_body_quat, state.body_rates>>

\* the last event was a gyro sample / an alignment request
GyroStep == n_gyro' = n_gyro + 1

AlignStep == n_aligns' = n_aligns + 1

\* both sink values were written exactly once / not at all in the step
PublishedOnce ==
  /\ state'.n_quat = state.n_quat + 1
  /\ state'.n_rates = state.n_rates + 1

PublishedNothing == state' = state

\* C1: the status goes from Uninitialized to Running only in an alignment,
\* and once Running it stays Running under every event.
C1_RunningIsTerminal ==
  [][ /\ (Running => ahrs_mlkf'.status = AHRS_MLKF_RUNNING)
      /\ (~Running /\ ahrs_mlkf'.status = AHRS_MLKF_RUNNING => ev'.op \in AlignOps)
    ]_vars

\* a sensor event handled by the running filter
C1_Witness == Running /\ ev.op \in {"gyro", "accel", "mag"} /\ n_events >= 2

\* C2 as claimed: any alignment made while Running, through the callback or
\* by a direct call, leaves quaternion, bias, status and published state alone.
C2_AnyAlignWhileRunningNoOp ==
  [][ Running /\ AlignStep =>
        /\ ahrs_mlkf'.ltp_to_imu_quat = ahrs_mlkf.ltp_to_imu_quat
        /\ ahrs_mlkf'.gyro_bias = ahrs_mlkf.gyro_bias
        /\ ahrs_mlkf'.status = ahrs_mlkf.status
        /\ Published' = Published
    ]_vars

\* C2 amended: an alignment event delivered through aligner_cb while Running
\* changes nothing of the filter or the sink; a direct call of ahrs_mlkf_align
\* while Running realigns: quaternion from the samples, bias from the averaged
\* gyro, one publication, status Running.
C2_CallbackAlignWhileRunningNoOp ==
  [][ Running /\ AlignStep =>
        IF ev'.op = "aligner_cb"
        THEN ahrs_mlkf' = ahrs_mlkf /\ state' = state
        ELSE /\ \E a \in AlignSamples :
                  /\ ahrs_mlkf'.ltp_to_imu_quat =
                       ahrs_float_get_quat_from_accel_mag(a.accel, a.mag)
                  /\ ahrs_mlkf'.gyro_bias = RATES_FLOAT_OF_BFP(a.gyro)
             /\ ahrs_mlkf'.status = AHRS_MLKF_RUNNING
             /\ PublishedOnce
    ]_vars

\* an aligner event arrived at a filter that a measurement update had moved
\* away from its alignment
C2_Witness ==
  /\ Running /\ ev.op = "aligner_cb" /\ n_aligns = 2 /\ n_events >= 1
  /\ \A a \in AlignSamples :
       ahrs_mlkf.ltp_to_imu_quat # ahrs_float_get_quat_from_accel_mag(a.accel, a.mag)

\* C3 as claimed, for the measured-dt build: the first gyro sample is dropped
\* and every ahrs_mlkf_propagate call of gyro_cb gets dt > 0.
C3_PropagateDtPositive ==
  build.measured_dt =>
    /\ (ev.op = "gyro" /\ n_gyro = 1 => prop_log = <<>>)
    /\ \A i \in 1..Len(prop_log) : prop_log[i][1] > 0

\* C4: an accel or mag event writes nothing to the vehicle state sink.
C4_MeasurementsDoNotPublish ==
  [][ ev'.op \in {"accel", "mag"} => PublishedNothing ]_vars

\* a measurement update has moved the reference quaternion away from the
\* body quaternion the sink still holds
C4_Witness ==
  /\ Running /\ ev.op \in {"accel", "mag"} /\ state.n_quat >= 1
  /\ state.ned_to_body_quat #
       float_quat_comp_inv(ahrs_mlkf.ltp_to_imu_quat, ahrs_mlkf.body_to_imu.quat)

\* C5 as claimed: every gyro event and every alignment publishes the body
\* quaternion and the body rates exactly once.
C5_EveryGyroPublishes ==
  [][ GyroStep \/ AlignStep => PublishedOnce ]_vars

\* the gyro sample is one that gyro_cb propagates
Propagates == Running /\ (build.measured_dt => ~U32IsZero(last_stamp))

\* C5 amended: a gyro event publishes both values exactly once when it
\* propagates (status Running and, in the measured-dt build, a previous time
\* stamp that is not 0) and nothing otherwise; an alignment that is carried
\* out (a direct call, or the callback while not Running) publishes both
\* exactly once, an aligner event while Running nothing.
C5_PropagatingGyroPublishes ==
  [][ /\ (GyroStep => IF Propagates THEN PublishedOnce ELSE PublishedNothing)
      /\ (AlignStep => IF ev'.op = "ahrs_mlkf_align" \/ ~Running
                       THEN PublishedOnce ELSE PublishedNothing)
    ]_vars

\* a gyro sample was propagated and published after the alignment
C5_Witness ==
  ev.op = "gyro" /\ prop_log # <<>> /\ state.n_quat = 2 /\ state.n_rates = 2

UnitWithinTolerance(q) ==
  FLeq(FAbs(FSub(QuatNorm2(q), F1)), Norm(1, 3 - MantBits))

C8_PSymmetric ==
  \A i \in 1..6, j \in 1..6 : ahrs_mlkf.P[i][j] = ahrs_mlkf.P[j][i]

\* the roll written for a frame of roll r lies in (-pi, pi]
RollReduced(r) == FLess(FNeg(M_PI), r) /\ FLeq(r, M_PI)

\* the attitude frames among the bytes of the last poll
AttitudeFrames == SelectSeq(ev.frames, LAMBDA f : f.done /\ f.id = 3)

\* C9 as claimed: every roll written to the sink lies in (-pi, pi].
C9_RollAlwaysReduced ==
  \A i \in 1..Len(chimu.log) : RollReduced(chimu.log[i].att[1])

\* C9 amended: attitude is written once for every parsed 0x03 frame and for
\* no other byte; the roll written is the frame's roll when that is at most
\* pi and lies in (-pi, pi] whenever the frame's roll lies in (-pi, 3 pi].
C9_RollReducedOnce ==
  /\ Len(chimu.log) = Len(AttitudeFrames)
  /\ \A i \in 1..Len(chimu.log) :
       LET raw == chimu.log[i].raw[1]
           att == chimu.log[i].att[1]
       IN  /\ chimu.log[i].raw = AttitudeFrames[i].euler
           /\ (FLeq(raw, M_PI) => att = raw)
           /\ (FLess(FNeg(M_PI), raw) /\ FLeq(raw, FMul(FromInt(3), M_PI))
                 => RollReduced(att))
  /\ (chimu.log # <<>> =>
        ins_state.ned_to_body_eulers = chimu.log[Len(chimu.log)].att)

\* a frame with a roll above pi was written with a negative roll, in a poll
\* that also found a byte that ends no attitude frame
C9_Witness ==
  /\ \E i \in 1..Len(chimu.log) :
       FLess(M_PI, chimu.log[i].raw[1]) /\ chimu.log[i].att[1][1] < 0
  /\ Len(ev.frames) > Len(chimu.log)

\* C10 as claimed: in the measured-dt build every gyro sample after the first
\* that reaches the running filter is propagated once, with the dt of the
\* elapsed microseconds modulo 2^32.
C10_EveryLaterSamplePropagates ==
  [][ build.measured_dt /\ Running /\ n_gyro >= 1 /\ GyroStep
        => prop_log' = <<StampDt(gyro_stamp', gyro_stamp)>>
    ]_vars

====
